---------------------------- MODULE Spec2Model ----------------------------
(* snap-ci: the pipeline executor (pipeline/pipeline.go,                  *)
(* executor/executor.go) and the run store (storage/storage.go).           *)
(*                                                                         *)
(* PipelineSpec runs one call of ExecutePipeline on a definition drawn     *)
(* from a bounded set; StoreSpec runs StoreRun against the run_metadata    *)
(* directory under a wall clock, with GetRun and GetRecentRuns as          *)
(* operators that read the directory.                                      *)
(* ConcurrentSpec runs the goroutine-per-job ExecutePipeline that the      *)
(* repository also holds.                                                  *)
(* TriggerSpec runs two triggers (webhook pushes, manual runs) side by     *)
(* side against the one working tree temp_repo.                            *)
(* ExecuteSpec runs either ExecutePipeline; TriggeredRunSpec takes one     *)
(* trigger from the request to the record with ExecutePipeline run step    *)
(* by step; WebhookSpec starts at the HTTP request; AuthSpec adds          *)
(* StoreRepoAuth for repositories whose names collide in auth_data.        *)
EXTENDS Integers, Sequences, FiniteSets, TLC

VARIABLES
    cfg,         \* config.Config handed to ExecutePipeline (its Jobs map)
    pc,          \* position of ExecutePipeline: "loop", "steps", "endjob", "done"
    pending,     \* keys of cfg.Jobs the range loop has not visited yet
    cur,         \* jobName of the current iteration ("" outside an iteration)
    stepIdx,     \* 1-based position of the inner range over job.Steps
    jobResult,   \* the local jobResult of the current iteration
    jobResults,  \* the map ExecutePipeline returns
    err,         \* the error ExecutePipeline returns ("none" until it returns)
    log,         \* history: the step processes started and the jobs finished, in order
    clock,       \* wall clock, in ticks
    files,       \* run_metadata directory: run id -> contents of run_<id>.json
    stored,      \* history: the RunMetadata built by each successful StoreRun, in order
    dirExists,   \* whether the run_metadata directory exists
    trig,        \* the triggers (webhook requests, manual runs): inputs and position of each
    tree,        \* the working tree temp_repo
    authData,    \* auth_data directory: file name -> contents of <authID>.json
    inflight,    \* the RunMetadata a StoreRun has created the file for and not yet written
    gor          \* the job goroutines of the concurrent ExecutePipeline: job name -> state

pipelineVars == <<cfg, pc, pending, cur, stepIdx, jobResult, jobResults, err, log, gor>>
storeVars == <<clock, files, stored, dirExists, inflight>>
triggerVars == <<trig, tree, authData>>
vars == <<cfg, pc, pending, cur, stepIdx, jobResult, jobResults, err, log,
          clock, files, stored, dirExists, inflight, trig, tree, authData, gor>>

-----------------------------------------------------------------------------
(* Bounds and input sets *)

MaxSteps == 2

\* StoreRun calls in one behaviour
MaxRuns == 3

\* the wall clock stops at this tick
MaxClock == 5

\* clock ticks per second of wall time (run ids have second resolution)
SubSecondTicks == 2

\* GetRecentRuns is asked for 0..MaxLimit runs
MaxLimit == 3

JobNames == {"build", "test"}

\* A needs entry may name a job of the definition or a name that is no job.
NeedNames == JobNames \cup {"deploy"}

\* config.Step values: two steps share the name "compile".
StepChoices ==
    { [Name |-> "compile", Run |-> "true"],
      [Name |-> "compile", Run |-> "false"],
      [Name |-> "lint", Run |-> "cat a.out"] }

NeedsChoices == {<<>>} \cup {<<n>> : n \in NeedNames}

StepSeqs == UNION {[1..n -> StepChoices] : n \in 0..MaxSteps}

\* config.Job
JobChoices == [Needs : NeedsChoices, Steps : StepSeqs]

\* config.Config, reduced to its Jobs map (Name and On play no part in execution)
Configs == UNION {[J -> JobChoices] : J \in SUBSET JobNames}

-----------------------------------------------------------------------------
(* Helpers on Go values *)

Range(s) == {s[i] : i \in 1..Len(s)}

\* m[k] = v on a Go map
MapPut(m, k, v) == [x \in DOMAIN m \cup {k} |-> IF x = k THEN v ELSE m[x]]

EmptyMap == <<>>

\* no *RunMetadata (nil)
NoRun == [ID |-> -1]

\* run_<id>.json right after os.Create: zero bytes
EmptyFile == [bytes |-> 0]

\* temp_repo does not exist
NoTree == [exists |-> FALSE, branch |-> <<>>, head |-> "", gen |-> 0]

-----------------------------------------------------------------------------
(* executor.ExecuteStep *)

\* The external process `bash -c step.Run`: its exit code and what it writes.
ExitCode(run) == IF run = "false" THEN 1 ELSE 0
Stdout(run) == IF run = "cat a.out" THEN <<"a", "xFF">> ELSE <<>>
Stderr(run) == <<>>

\* cmd.Run() returns when the process has exited; exec.Command sets no deadline
Exits(run) == run # "sleep infinity"

\* types.StepResult{}
ZeroStepResult == [Name |-> "", Status |-> "", Logs |-> <<>>]

\* A variant that hands back the populated result together with the error.
ExecuteStepResultWithError(step) ==
    LET logs == Stdout(step.Run) \o Stderr(step.Run) IN
    [result |-> [Name |-> step.Name,
                 Status |-> IF ExitCode(step.Run) # 0 THEN "Failure" ELSE "Success",
                 Logs |-> logs],
     err |-> IF ExitCode(step.Run) # 0 THEN "step failed" ELSE "nil"]

ExecuteStep(step) ==
    LET logs == Stdout(step.Run) \o Stderr(step.Run) IN
    IF ExitCode(step.Run) # 0
    THEN [result |-> ZeroStepResult, err |-> "step failed"]
    ELSE [result |-> [Name |-> step.Name, Status |-> "Success", Logs |-> logs],
          err |-> "nil"]

-----------------------------------------------------------------------------
(* pipeline.ExecutePipeline *)

NewJobResult == [Status |-> "Success", Steps |-> EmptyMap]

NoJobResult == [Status |-> "", Steps |-> EmptyMap]

PipelineInit ==
    /\ cfg \in Configs
    /\ pc = "loop"
    /\ pending = DOMAIN cfg
    /\ cur = ""
    /\ stepIdx = 0
    /\ jobResult = NoJobResult
    /\ jobResults = EmptyMap
    /\ err = "none"
    /\ log = <<>>
    /\ clock = 0
    /\ files = EmptyMap
    /\ stored = <<>>
    /\ dirExists = FALSE
    /\ inflight = NoRun
    /\ trig = EmptyMap
    /\ tree = NoTree
    /\ authData = EmptyMap
    /\ gor = EmptyMap

\* for jobName, job := range cfg.Jobs: Go visits the keys in an unspecified order
NextJob ==
    /\ pc = "loop"
    /\ \E jobName \in pending :
        /\ cur' = jobName
        /\ jobResult' = NewJobResult
        /\ stepIdx' = 1
        /\ pc' = "steps"
        /\ log' = Append(log, [ev |-> "start", job |-> jobName, idx |-> 0])
    /\ UNCHANGED <<cfg, pending, jobResults, err>>

\* A slip that forgets the break after a failed step.
RunStepNoBreak ==
    /\ pc = "steps"
    /\ stepIdx <= Len(cfg[cur].Steps)
    /\ Exits(cfg[cur].Steps[stepIdx].Run)
    /\ LET step == cfg[cur].Steps[stepIdx]
           r == ExecuteStep(step)
       IN /\ log' = Append(log, [ev |-> "step", job |-> cur, idx |-> stepIdx])
          /\ jobResult' = [Status |-> IF r.err # "nil" THEN "Failure" ELSE jobResult.Status,
                           Steps |-> MapPut(jobResult.Steps, step.Name, r.result)]
          /\ stepIdx' = stepIdx + 1
          /\ UNCHANGED pc
    /\ UNCHANGED <<cfg, pending, cur, jobResults, err>>

\* A variant with a deadline: a process that does not exit is killed and its
\* step fails.
RunStepTimesOut ==
    /\ pc = "steps"
    /\ stepIdx <= Len(cfg[cur].Steps)
    /\ LET step == cfg[cur].Steps[stepIdx]
           r == IF Exits(step.Run) THEN ExecuteStep(step)
                ELSE [result |-> ZeroStepResult, err |-> "step failed"]
       IN /\ log' = Append(log, [ev |-> "step", job |-> cur, idx |-> stepIdx])
          /\ IF r.err # "nil"
             THEN /\ jobResult' = [Status |-> "Failure",
                                   Steps |-> MapPut(jobResult.Steps, step.Name, r.result)]
                  /\ pc' = "endjob"
                  /\ UNCHANGED stepIdx
             ELSE /\ jobResult' = [jobResult EXCEPT
                                     !.Steps = MapPut(jobResult.Steps, step.Name, r.result)]
                  /\ stepIdx' = stepIdx + 1
                  /\ UNCHANGED pc
    /\ UNCHANGED <<cfg, pending, cur, jobResults, err>>

\* one iteration of for _, step := range job.Steps; ExecuteStep returns when
\* the step's process has exited
RunStep ==
    /\ pc = "steps"
    /\ stepIdx <= Len(cfg[cur].Steps)
    /\ Exits(cfg[cur].Steps[stepIdx].Run)
    /\ LET step == cfg[cur].Steps[stepIdx]
           r == ExecuteStep(step)
       IN /\ log' = Append(log, [ev |-> "step", job |-> cur, idx |-> stepIdx])
          /\ IF r.err # "nil"
             THEN /\ jobResult' = [Status |-> "Failure",
                                   Steps |-> MapPut(jobResult.Steps, step.Name, r.result)]
                  /\ pc' = "endjob"
                  /\ UNCHANGED stepIdx
             ELSE /\ jobResult' = [jobResult EXCEPT
                                     !.Steps = MapPut(jobResult.Steps, step.Name, r.result)]
                  /\ stepIdx' = stepIdx + 1
                  /\ UNCHANGED pc
    /\ UNCHANGED <<cfg, pending, cur, jobResults, err>>

\* A slip that records a job only from inside the failure branch.
RecordJobOnFailureOnly(results, jobName, res) ==
    IF res.Status = "Failure" THEN MapPut(results, jobName, res) ELSE results

\* jobResults[jobName] = jobResult
RecordJob(results, jobName, res) == MapPut(results, jobName, res)

\* A slip that leaves the job loop, not only the step loop, after a failed step.
RemainingJobsNoneAfterFailure(jobs, jobName, res) ==
    IF res.Status = "Failure" THEN {} ELSE jobs \ {jobName}

\* the keys the range over cfg.Jobs still has to visit after jobName: the break
\* of a failed step leaves only the step loop
RemainingJobs(jobs, jobName, res) == jobs \ {jobName}

\* the end of one iteration of the job loop, after the step loop ended or broke
EndJob ==
    /\ \/ pc = "endjob"
       \/ pc = "steps" /\ stepIdx > Len(cfg[cur].Steps)
    /\ jobResults' = RecordJob(jobResults, cur, jobResult)
    /\ log' = Append(log, [ev |-> "end", job |-> cur, idx |-> 0])
    /\ pending' = RemainingJobs(pending, cur, jobResult)
    /\ cur' = ""
    /\ stepIdx' = 0
    /\ jobResult' = NoJobResult
    /\ pc' = "loop"
    /\ UNCHANGED <<cfg, err>>

\* return jobResults, nil
Return ==
    /\ pc = "loop"
    /\ pending = {}
    /\ pc' = "done"
    /\ err' = "nil"
    /\ UNCHANGED <<cfg, pending, cur, stepIdx, jobResult, jobResults, log>>

PipelineNext ==
    \/ NextJob /\ UNCHANGED <<storeVars, triggerVars, gor>>
    \/ RunStep /\ UNCHANGED <<storeVars, triggerVars, gor>>
    \/ EndJob /\ UNCHANGED <<storeVars, triggerVars, gor>>
    \/ Return /\ UNCHANGED <<storeVars, triggerVars, gor>>

\* The loop is sequential code on one goroutine and every step process exits,
\* so a step that can be taken is taken.
PipelineSpec == PipelineInit /\ [][PipelineNext]_vars /\ WF_vars(PipelineNext)

-----------------------------------------------------------------------------
(* pipeline.ExecutePipeline, the goroutine-per-job variant, and the          *)
(* executor.ExecuteStep it calls                                             *)

\* executor.ExecuteStep(step) (string, error): the combined output, with an
\* error when /bin/sh -c step.Run fails
ExecuteStepOutput(step) ==
    [logs |-> Stdout(step.Run) \o Stderr(step.Run),
     err |-> IF ExitCode(step.Run) # 0 THEN "command failed" ELSE "nil"]

\* this ExecutePipeline never reads Needs either; the definitions it is run on
\* leave them empty
ConcurrentConfigs == {c \in Configs : \A j \in DOMAIN c : c[j].Needs = <<>>}

ConcurrentInit ==
    /\ cfg \in ConcurrentConfigs
    /\ pc = "spawn"
    /\ pending = DOMAIN cfg
    /\ cur = ""
    /\ stepIdx = 0
    /\ jobResult = NoJobResult
    /\ jobResults = EmptyMap
    /\ err = "none"
    /\ log = <<>>
    /\ clock = 0
    /\ files = EmptyMap
    /\ stored = <<>>
    /\ dirExists = FALSE
    /\ inflight = NoRun
    /\ trig = EmptyMap
    /\ tree = NoTree
    /\ authData = EmptyMap
    /\ gor = EmptyMap

\* where a goroutine that has run step idx goes next: to the map write after a
\* failure (break) or after the last step, else to the next step
AfterStep(j, idx, failed) ==
    IF failed \/ idx >= Len(cfg[j].Steps) THEN "write" ELSE "run"

\* for job := range jobChan { wg.Add(1); go func(j) {...}(job) }: one goroutine
\* is started; executeJob begins with Status "Success" and empty Logs
Spawn ==
    /\ pc = "spawn"
    /\ \E j \in pending :
        /\ pending' = pending \ {j}
        /\ gor' = MapPut(gor, j,
                     [gpc |-> AfterStep(j, 0, FALSE), idx |-> 0,
                      result |-> [Name |-> j, Status |-> "Success", Logs |-> <<>>]])
    /\ UNCHANGED <<cfg, pc, cur, stepIdx, jobResult, jobResults, err, log>>

\* jobChan is drained: the main goroutine reaches wg.Wait()
AllSpawned ==
    /\ pc = "spawn"
    /\ pending = {}
    /\ pc' = "wait"
    /\ UNCHANGED <<cfg, pending, cur, stepIdx, jobResult, jobResults, err, log, gor>>

\* executeJob runs the next step of job j
GoStep(j) ==
    /\ pc # "fatal"
    /\ j \in DOMAIN gor
    /\ gor[j].gpc = "run"
    /\ LET g == gor[j]
           i == g.idx + 1
           r == ExecuteStepOutput(cfg[j].Steps[i])
           failed == r.err # "nil"
       IN gor' = [gor EXCEPT ![j] =
                     [gpc |-> AfterStep(j, i, failed), idx |-> i,
                      result |->
                          [Name |-> j,
                           Status |-> IF failed THEN "Failure" ELSE "Success",
                           Logs |-> IF failed
                                    THEN g.result.Logs \o r.logs \o <<"Step failed">>
                                    ELSE g.result.Logs \o r.logs]]]
    /\ UNCHANGED <<cfg, pc, pending, cur, stepIdx, jobResult, jobResults, err, log>>

\* jobResults[j.Name] = result begins: a Go map assignment is not atomic
BeginWrite(j) ==
    /\ pc # "fatal"
    /\ j \in DOMAIN gor
    /\ gor[j].gpc = "write"
    /\ gor' = [gor EXCEPT ![j].gpc = "writing"]
    /\ UNCHANGED <<cfg, pc, pending, cur, stepIdx, jobResult, jobResults, err, log>>

\* the assignment ends and wg.Done() runs. A write that overlapped another one
\* is a data race: the entry may be there or may be lost.
EndWrite(j) ==
    /\ pc # "fatal"
    /\ j \in DOMAIN gor
    /\ gor[j].gpc = "writing"
    /\ gor' = [gor EXCEPT ![j].gpc = "done"]
    /\ \/ jobResults' = MapPut(jobResults, j, gor[j].result)
       \/ /\ \E k \in DOMAIN gor \ {j} : gor[k].gpc = "writing"
          /\ jobResults' = jobResults
    /\ UNCHANGED <<cfg, pc, pending, cur, stepIdx, jobResult, err, log>>

\* the runtime detects the overlapping writes: "fatal error: concurrent map
\* writes", and the process dies
Fatal ==
    /\ pc # "fatal"
    /\ Cardinality({j \in DOMAIN gor : gor[j].gpc = "writing"}) > 1
    /\ pc' = "fatal"
    /\ UNCHANGED <<cfg, pending, cur, stepIdx, jobResult, jobResults, err, log, gor>>

\* A slip that returns without wg.Wait().
WaitReturnNoWait ==
    /\ pc = "wait"
    /\ pc' = "done"
    /\ err' = "nil"
    /\ UNCHANGED <<cfg, pending, cur, stepIdx, jobResult, jobResults, log, gor>>

\* wg.Wait() returns once every goroutine has called wg.Done(); return jobResults, nil
WaitReturn ==
    /\ pc = "wait"
    /\ \A j \in DOMAIN cfg : j \in DOMAIN gor /\ gor[j].gpc = "done"
    /\ pc' = "done"
    /\ err' = "nil"
    /\ UNCHANGED <<cfg, pending, cur, stepIdx, jobResult, jobResults, log, gor>>

ConcurrentNext ==
    \/ Spawn /\ UNCHANGED <<storeVars, triggerVars>>
    \/ AllSpawned /\ UNCHANGED <<storeVars, triggerVars>>
    \/ \E j \in JobNames : GoStep(j) /\ UNCHANGED <<storeVars, triggerVars>>
    \/ \E j \in JobNames : BeginWrite(j) /\ UNCHANGED <<storeVars, triggerVars>>
    \/ \E j \in JobNames : EndWrite(j) /\ UNCHANGED <<storeVars, triggerVars>>
    \/ Fatal /\ UNCHANGED <<storeVars, triggerVars>>
    \/ WaitReturn /\ UNCHANGED <<storeVars, triggerVars>>

\* goroutines that can run are scheduled and every step process exits
ConcurrentSpec == ConcurrentInit /\ [][ConcurrentNext]_vars /\ WF_vars(ConcurrentNext)

\* a call of either ExecutePipeline the repository holds: the sequential one of
\* pipeline/pipeline.go or the goroutine-per-job one
ExecuteInit == PipelineInit \/ ConcurrentInit

ExecuteNext == PipelineNext \/ ConcurrentNext

ExecuteSpec ==
    ExecuteInit /\ [][ExecuteNext]_vars /\ WF_vars(PipelineNext) /\ WF_vars(ConcurrentNext)

-----------------------------------------------------------------------------
(* storage: RunMetadata and its JSON form *)

\* Byte strings (step logs) are sequences of bytes: "xFF" is a byte that is not
\* valid UTF-8, "uFFFD" the replacement rune. Names and statuses are UTF-8 text.

\* what encoding/json writes for a Go string: invalid bytes become U+FFFD
EncodeString(b) == [i \in DOMAIN b |-> IF b[i] = "xFF" THEN "uFFFD" ELSE b[i]]

\* types.StepResult under its json tags
EncodeStepResult(r) ==
    [name |-> r.Name, status |-> r.Status, logs |-> EncodeString(r.Logs)]

DecodeStepResult(d) == [Name |-> d.name, Status |-> d.status, Logs |-> d.logs]

\* types.JobResult under its json tags
EncodeJobResult(r) ==
    [status |-> r.Status,
     steps |-> [s \in DOMAIN r.Steps |-> EncodeStepResult(r.Steps[s])]]

DecodeJobResult(d) ==
    [Status |-> d.status,
     Steps |-> [s \in DOMAIN d.steps |-> DecodeStepResult(d.steps[s])]]

\* storage.RunMetadata under its json tags. config.Config carries no json tags and
\* only UTF-8 text (yaml rejects anything else), so it is written under its field
\* names; a time.Time is written as RFC 3339 with nanoseconds, which keeps the
\* instant.
EncodeRun(m) ==
    [id |-> m.ID,
     config |-> m.Config,
     results |-> [j \in DOMAIN m.Results |-> EncodeJobResult(m.Results[j])],
     start_time |-> m.StartTime,
     end_time |-> m.EndTime,
     status |-> m.Status,
     triggered_by |-> m.TriggeredBy,
     repo_name |-> m.RepoName,
     branch |-> m.Branch,
     commit_sha |-> m.CommitSHA,
     commit_msg |-> m.CommitMsg,
     commit_author |-> m.CommitAuthor]

DecodeRun(d) ==
    [ID |-> d.id,
     Config |-> d.config,
     Results |-> [j \in DOMAIN d.results |-> DecodeJobResult(d.results[j])],
     StartTime |-> d.start_time,
     EndTime |-> d.end_time,
     Status |-> d.status,
     TriggeredBy |-> d.triggered_by,
     RepoName |-> d.repo_name,
     Branch |-> d.branch,
     CommitSHA |-> d.commit_sha,
     CommitMsg |-> d.commit_msg,
     CommitAuthor |-> d.commit_author]

\* time.Now().Format("20060102150405"): the second the tick t falls in
FormatRunID(t) == t \div SubSecondTicks

RECURSIVE OverallStatusLoop(_, _)
\* the range loop of calculateOverallStatus over the keys not visited yet
OverallStatusLoop(results, keys) ==
    IF keys = {} THEN "Success"
    ELSE LET k == CHOOSE x \in keys : TRUE
         IN IF results[k].Status = "Failure" THEN "Failure"
            ELSE OverallStatusLoop(results, keys \ {k})

\* A slip that lets a succeeded job reset the status: Failure only if all jobs failed.
calculateOverallStatusAllFailed(results) ==
    IF results # EmptyMap /\ \A j \in DOMAIN results : results[j].Status = "Failure"
    THEN "Failure" ELSE "Success"

calculateOverallStatus(results) == OverallStatusLoop(results, DOMAIN results)

-----------------------------------------------------------------------------
(* storage.StoreRun, GetRun, GetRecentRuns *)

\* Definitions whose jobs have one step each, and the result maps
\* ExecutePipeline returns for them.
StoredConfigNone == EmptyMap

StoredConfigBuild ==
    [build |-> [Needs |-> <<>>, Steps |-> <<[Name |-> "lint", Run |-> "cat a.out"]>>]]

StoredConfigBuildTest ==
    [build |-> [Needs |-> <<>>, Steps |-> <<[Name |-> "compile", Run |-> "true"]>>],
     test |-> [Needs |-> <<"build">>, Steps |-> <<[Name |-> "compile", Run |-> "false"]>>]]

ResultsOf(c) ==
    [j \in DOMAIN c |->
        LET steps == c[j].Steps
            r == ExecuteStep(steps[1])
        IN [Status |-> IF r.err = "nil" THEN "Success" ELSE "Failure",
            Steps |-> MapPut(EmptyMap, steps[1].Name, r.result)]]

RunInputs == {StoredConfigNone, StoredConfigBuild, StoredConfigBuildTest}

StoreInit ==
    /\ cfg = EmptyMap
    /\ pc = "idle"
    /\ pending = {}
    /\ cur = ""
    /\ stepIdx = 0
    /\ jobResult = NoJobResult
    /\ jobResults = EmptyMap
    /\ err = "none"
    /\ log = <<>>
    /\ clock = 0
    /\ files = EmptyMap
    /\ stored = <<>>
    /\ dirExists = FALSE
    /\ inflight = NoRun
    /\ trig = EmptyMap
    /\ tree = NoTree
    /\ authData = EmptyMap
    /\ gor = EmptyMap

\* StoreRun(cfg, results, ...) returning nil: os.MkdirAll leaves the directory
\* in place, the clock is read for the run id (at tick clock), for StartTime
\* (d ticks later) and for EndTime (e ticks after that), and os.Create truncates
\* a file of the same name.
NewRunMetadata(c, results, repoName, branch, commitSHA, commitMsg, commitAuthor, triggeredBy, d, e) ==
    [ID |-> FormatRunID(clock),
     Config |-> c,
     Results |-> results,
     StartTime |-> clock + d,
     EndTime |-> clock + d + e,
     Status |-> calculateOverallStatus(results),
     RepoName |-> repoName,
     Branch |-> branch,
     CommitSHA |-> commitSHA,
     CommitMsg |-> commitMsg,
     CommitAuthor |-> commitAuthor,
     TriggeredBy |-> triggeredBy]

StoreRunWrites(c, results, repoName, branch, commitSHA, commitMsg, commitAuthor, triggeredBy, d, e) ==
    LET metadata == NewRunMetadata(c, results, repoName, branch, commitSHA, commitMsg,
                                   commitAuthor, triggeredBy, d, e)
    IN /\ files' = MapPut(files, metadata.ID, EncodeRun(metadata))
       /\ stored' = Append(stored, metadata)
       /\ clock' = clock + d + e
       /\ dirExists' = TRUE
       /\ UNCHANGED inflight

\* the run command of cmd/main.go storing what ExecutePipeline returned
StoreRun ==
    /\ Len(stored) < MaxRuns
    /\ \E c \in RunInputs, d \in 0..1, e \in 0..1 :
        /\ clock + d + e <= MaxClock
        /\ StoreRunWrites(c, ResultsOf(c), "manual-run/repo", "manual-branch",
                          "manual-sha", "Manual pipeline trigger", "manual-user",
                          "cli-user", d, e)
    /\ UNCHANGED <<pipelineVars, triggerVars>>

\* StoreRun returning "failed to create metadata file": os.MkdirAll has made the
\* directory and os.Create fails, so the directory holds no new file.
StoreRunCreateFails ==
    /\ ~dirExists
    /\ dirExists' = TRUE
    /\ UNCHANGED <<clock, files, stored, inflight>>
    /\ UNCHANGED <<pipelineVars, triggerVars>>

\* wall time passes between calls
Tick ==
    /\ clock < MaxClock
    /\ clock' = clock + 1
    /\ UNCHANGED <<files, stored, dirExists, inflight>>
    /\ UNCHANGED <<pipelineVars, triggerVars>>

\* A slip that drops the os.IsNotExist branch: a missing file is an open failure.
GetRunNoNotExistBranch(runID) ==
    IF dirExists /\ runID \in DOMAIN files
    THEN IF files[runID] = EmptyFile
         THEN [run |-> NoRun, err |-> "failed to decode metadata from JSON"]
         ELSE [run |-> DecodeRun(files[runID]), err |-> "nil"]
    ELSE [run |-> NoRun, err |-> "failed to open metadata file"]

\* GetRun(runID): the decoded contents of run_<runID>.json; os.Open fails with
\* "not exist" when the file or the directory is missing, and GetRun then
\* returns (nil, run not found); decoding zero bytes fails with EOF
GetRun(runID) ==
    IF dirExists /\ runID \in DOMAIN files
    THEN IF files[runID] = EmptyFile
         THEN [run |-> NoRun, err |-> "failed to decode metadata from JSON"]
         ELSE [run |-> DecodeRun(files[runID]), err |-> "nil"]
    ELSE [run |-> NoRun, err |-> "run not found"]

\* the files GetRecentRuns keeps: those GetRun reads without an error
Readable == {id \in DOMAIN files : GetRun(id).err = "nil"}

\* the orders sort.Slice may leave the runs in: StartTime never increases
SortedByStartTime ==
    {p \in [1..Cardinality(Readable) -> Readable] :
        /\ \A a, b \in DOMAIN p : a # b => p[a] # p[b]
        /\ \A a, b \in DOMAIN p :
            a < b => ~(GetRun(p[b]).run.StartTime > GetRun(p[a]).run.StartTime)}

\* A slip that treats a missing directory like any other ReadDir failure.
GetRecentRunsNoNotExistBranch(limit) ==
    IF ~dirExists
    THEN {[runs |-> <<>>, err |-> "failed to read run metadata directory"]}
    ELSE {[runs |-> [i \in 1..(IF Len(p) > limit THEN limit ELSE Len(p)) |->
                        GetRun(p[i]).run],
           err |-> "nil"] : p \in SortedByStartTime}

\* GetRecentRuns(limit), limit >= 0: every (runs, error) it may return
\* (sort.Slice is not stable). A missing directory gives ([]RunMetadata{}, nil).
GetRecentRuns(limit) ==
    IF ~dirExists
    THEN {[runs |-> <<>>, err |-> "nil"]}
    ELSE {[runs |-> [i \in 1..(IF Len(p) > limit THEN limit ELSE Len(p)) |->
                        GetRun(p[i]).run],
           err |-> "nil"] : p \in SortedByStartTime}

StoreNext == StoreRun \/ StoreRunCreateFails \/ Tick

StoreSpec == StoreInit /\ [][StoreNext]_vars

\* StoreRun seen by a reader in another goroutine or process, up to os.Create:
\* the directory is there, the metadata is built and run_<id>.json is created or
\* truncated
StoreRunCreate ==
    /\ inflight = NoRun
    /\ Len(stored) < MaxRuns
    /\ \E c \in RunInputs, d \in 0..1, e \in 0..1 :
        /\ clock + d + e <= MaxClock
        /\ inflight' = NewRunMetadata(c, ResultsOf(c), "manual-run/repo", "manual-branch",
                                      "manual-sha", "Manual pipeline trigger",
                                      "manual-user", "cli-user", d, e)
        /\ files' = MapPut(files, inflight'.ID, EmptyFile)
        /\ clock' = clock + d + e
    /\ dirExists' = TRUE
    /\ UNCHANGED stored
    /\ UNCHANGED <<pipelineVars, triggerVars>>

\* encoder.Encode(metadata) writes the record and StoreRun returns nil
StoreRunEncode ==
    /\ inflight # NoRun
    /\ files' = MapPut(files, inflight.ID, EncodeRun(inflight))
    /\ stored' = Append(stored, inflight)
    /\ inflight' = NoRun
    /\ UNCHANGED <<clock, dirExists>>
    /\ UNCHANGED <<pipelineVars, triggerVars>>

StoreWriteNext == StoreRunCreate \/ StoreRunEncode \/ Tick

\* a StoreRun in two steps, with GetRun and GetRecentRuns read in every state
StoreWriteSpec == StoreInit /\ [][StoreWriteNext]_vars

-----------------------------------------------------------------------------
(* Triggers: WebhookHandler, git.TriggerManualRun and cloneRepo on temp_repo *)

\* The requests in flight: net/http serves each webhook request in a goroutine
\* of its own, and no lock guards temp_repo.
Triggers == {"t1", "t2"}

\* the remote repository: its branches and the commit at the tip of each; c1 is
\* an earlier commit of main. A ref or a branch name is the sequence of its
\* "/"-separated segments, strings.Split(ref, "/").
RemoteTips ==
    (<<"main">> :> "c2") @@ (<<"feature">> :> "f1") @@ (<<"feature", "x">> :> "x1")
Commits == {"c1", "c2", "f1", "x1"}

\* PushEvent.Ref and PushEvent.HeadCommit.ID ("" for a nil HeadCommit)
WebhookRefs ==
    {<<"refs", "heads", "main">>, <<"refs", "heads", "feature">>,
     <<"refs", "heads", "feature", "x">>,
     <<"refs", "tags", "v1.0">>, <<"weird-ref">>}
WebhookSHAs == {"", "c1", "c2"}

\* the branch and commitSHA arguments of TriggerManualRun
ManualBranches == {<<>>, <<"main">>, <<"feature">>, <<"feature", "x">>}
ManualSHAs == {"", "c1", "bad"}

\* fullRef of TriggerManualRun: "refs/heads/" + (branch, or main when empty)
ManualFullRef(branch) ==
    <<"refs", "heads">> \o (IF branch = <<>> THEN <<"main">> ELSE branch)

\* a repository name, character by character as far as "/" and "_" go
TheRepo == <<"owner", "/", "repo">>

\* authID := strings.ReplaceAll(repoName, "/", "_")
AuthID(repoName) == [i \in DOMAIN repoName |-> IF repoName[i] = "/" THEN "_" ELSE repoName[i]]

\* the contents auth_data/<authID>.json may have: text that does not decode, or
\* a RepoAuth
Undecodable == [ok |-> FALSE, RepoName |-> <<>>, GithubToken |-> ""]
RepoAuthFile(repoName, token) == [ok |-> TRUE, RepoName |-> repoName, GithubToken |-> token]

\* the auth_data directory the triggers find: no file for the repository, an
\* undecodable file, a RepoAuth with an empty token, a RepoAuth with a token
AuthDataChoices ==
    {EmptyMap,
     AuthID(TheRepo) :> Undecodable,
     AuthID(TheRepo) :> RepoAuthFile(TheRepo, ""),
     AuthID(TheRepo) :> RepoAuthFile(TheRepo, "tok")}

\* storage.GetRepoAuth(repoName): (nil, error) when the file is missing or does
\* not decode
NoAuth == [ok |-> FALSE, RepoName |-> <<>>, GithubToken |-> "nil"]
GetRepoAuth(repoName) ==
    IF AuthID(repoName) \notin DOMAIN authData
    THEN [auth |-> NoAuth, err |-> "authentication data not found"]
    ELSE IF ~authData[AuthID(repoName)].ok
    THEN [auth |-> NoAuth, err |-> "failed to decode auth data from JSON"]
    ELSE [auth |-> authData[AuthID(repoName)], err |-> "nil"]

\* a clone URL https://[userinfo@]host/repo.git
NoURL == [userinfo |-> <<>>, host |-> "", repo |-> <<>>]
GithubURL(repoName) == [userinfo |-> <<>>, host |-> "github.com", repo |-> repoName]
WithToken(url, token) == [url EXCEPT !.userinfo = <<"oauth2", token>>]

\* strings.HasPrefix(repoURL, "https://github.com/")
IsPlainGithub(url) == url.userinfo = <<>> /\ url.host = "github.com"

\* repoURL of TriggerManualRun: the token is embedded when GetRepoAuth returns
\* one that is not empty
ManualRepoURL(repoName) ==
    LET got == GetRepoAuth(repoName) IN
    IF got.err = "nil" /\ got.auth.GithubToken # ""
    THEN WithToken(GithubURL(repoName), got.auth.GithubToken)
    ELSE GithubURL(repoName)

\* A slip that embeds whatever token the lookup left, the empty one included.
FinalRepoURLEmbedsAlways(repoURL) ==
    IF IsPlainGithub(repoURL)
    THEN LET got == GetRepoAuth(repoURL.repo) IN
         WithToken(repoURL, IF got.err = "nil" THEN got.auth.GithubToken ELSE "")
    ELSE repoURL

\* finalRepoURL of cloneRepo: for a plain GitHub HTTPS URL the credential of
\* owner/repo is looked up; a failed lookup leaves auth nil and is only logged;
\* a token that is not empty is embedded
FinalRepoURL(repoURL) ==
    IF IsPlainGithub(repoURL)
    THEN LET got == GetRepoAuth(repoURL.repo) IN
         IF got.err = "nil" /\ got.auth.GithubToken # ""
         THEN WithToken(repoURL, got.auth.GithubToken)
         ELSE repoURL
    ELSE repoURL

NewTrigger(kind, ref, branch, sha) ==
    [kind |-> kind, ref |-> ref, branch |-> branch, sha |-> sha,
     repoURL |-> IF kind = "webhook" THEN GithubURL(TheRepo) ELSE NoURL,
     cloneURL |-> NoURL,
     tpc |-> "new", resp |-> "none", failedAt |-> "none",
     cloned |-> <<>>, removedGen |-> 0,
     effSHA |-> "", effBranch |-> <<>>, commitMsg |-> "",
     ranSteps |-> FALSE, execHead |-> "", persisted |-> FALSE, recIdx |-> 0]

TriggerInputs ==
    {NewTrigger("webhook", r, <<>>, s) : r \in WebhookRefs, s \in WebhookSHAs}
    \cup {NewTrigger("manual", ManualFullRef(b), b, s) :
              b \in ManualBranches, s \in ManualSHAs}

TriggerInit ==
    /\ cfg = EmptyMap
    /\ pc = "idle"
    /\ pending = {}
    /\ cur = ""
    /\ stepIdx = 0
    /\ jobResult = NoJobResult
    /\ jobResults = EmptyMap
    /\ err = "none"
    /\ log = <<>>
    /\ clock = 0
    /\ files = EmptyMap
    /\ stored = <<>>
    /\ dirExists = FALSE
    /\ inflight = NoRun
    /\ trig \in [Triggers -> TriggerInputs]
    /\ tree = NoTree
    /\ authData = EmptyMap
    /\ gor = EmptyMap

\* the triggers for main, under every state of the stored credential
CredentialInputs ==
    {NewTrigger("webhook", <<"refs", "heads", "main">>, <<>>, ""),
     NewTrigger("manual", ManualFullRef(<<"main">>), <<"main">>, ""),
     NewTrigger("manual", ManualFullRef(<<>>), <<>>, "c1")}

CredentialInit ==
    /\ cfg = EmptyMap
    /\ pc = "idle"
    /\ pending = {}
    /\ cur = ""
    /\ stepIdx = 0
    /\ jobResult = NoJobResult
    /\ jobResults = EmptyMap
    /\ err = "none"
    /\ log = <<>>
    /\ clock = 0
    /\ files = EmptyMap
    /\ stored = <<>>
    /\ dirExists = FALSE
    /\ inflight = NoRun
    /\ trig \in [Triggers -> CredentialInputs]
    /\ tree = NoTree
    /\ authData \in AuthDataChoices
    /\ gor = EmptyMap

\* an error return of the handler: http.Error(..., 500) and return in
\* WebhookHandler, return fmt.Errorf(...) in TriggerManualRun
AbortRunGoesOn(tr, at) ==
    IF at \in {"remove", "ref", "clone", "checkout"}
    THEN [tr EXCEPT !.failedAt = at, !.tpc = "load"]
    ELSE [tr EXCEPT !.tpc = "done", !.resp = "error", !.failedAt = at]

AbortRun(tr, at) == [tr EXCEPT !.tpc = "done", !.resp = "error", !.failedAt = at]

\* the branch cloneRepo resolves from the segments of fullRef
ParseRefTagAsUnresolved(parts) ==
    IF Len(parts) > 2 /\ parts[2] = "heads"
    THEN [err |-> "nil", branch |-> <<parts[3]>>]
    ELSE [err |-> "nil", branch |-> <<"main">>]

ParseRefUnresolvedRejected(parts) ==
    IF Len(parts) > 2 /\ parts[2] = "heads"
    THEN [err |-> "nil", branch |-> <<parts[3]>>]
    ELSE [err |-> "tag ref received, not cloning", branch |-> <<>>]

ParseRef(parts) ==
    IF Len(parts) > 2 /\ parts[2] = "heads"
    THEN [err |-> "nil", branch |-> <<parts[3]>>]
    ELSE IF parts[1] = "refs" /\ Len(parts) > 2 /\ parts[2] = "tags"
    THEN [err |-> "tag ref received, not cloning", branch |-> <<>>]
    ELSE [err |-> "nil", branch |-> <<"main">>]

\* A variant that looks at the ref first and leaves temp_repo alone for a tag.
TrigRemoveAfterValidation(t) ==
    LET tr == IF trig[t].kind = "manual"
              THEN [trig[t] EXCEPT !.repoURL = ManualRepoURL(TheRepo)]
              ELSE trig[t]
    IN /\ tr.tpc = "new"
       /\ \/ /\ ParseRef(tr.ref).err # "nil"
             /\ trig' = [trig EXCEPT ![t] =
                            AbortRun([tr EXCEPT !.removedGen = tree.gen], "ref")]
             /\ UNCHANGED tree
          \/ /\ ParseRef(tr.ref).err = "nil"
             /\ tree' = [tree EXCEPT !.exists = FALSE, !.branch = <<>>, !.head = ""]
             /\ trig' = [trig EXCEPT ![t] = [tr EXCEPT !.tpc = "clone",
                                                      !.removedGen = tree.gen]]
          \/ /\ tree.exists
             /\ trig' = [trig EXCEPT ![t] = AbortRun(tr, "remove")]
             /\ UNCHANGED tree
       /\ UNCHANGED <<authData, pipelineVars, storeVars>>

\* the handler up to the first half of cloneRepo: TriggerManualRun builds its
\* repoURL, then os.Stat and os.RemoveAll of temp_repo
TrigRemove(t) ==
    LET tr == IF trig[t].kind = "manual"
              THEN [trig[t] EXCEPT !.repoURL = ManualRepoURL(TheRepo)]
              ELSE trig[t]
    IN /\ tr.tpc = "new"
       /\ \/ /\ tree' = [tree EXCEPT !.exists = FALSE, !.branch = <<>>, !.head = ""]
             /\ trig' = [trig EXCEPT ![t] = [tr EXCEPT !.tpc = "clone",
                                                      !.removedGen = tree.gen]]
          \/ /\ tree.exists
             /\ trig' = [trig EXCEPT ![t] = AbortRun(tr, "remove")]
             /\ UNCHANGED tree
       /\ UNCHANGED <<authData, pipelineVars, storeVars>>

\* cloneRepo, second half: the ref is parsed, the credential is looked up and
\* git clone -b <branch> <finalRepoURL> temp_repo runs. git refuses a destination that exists and is not empty, and a branch the remote
\* does not have; the clone can also fail on the network.
TrigClone(t) ==
    LET tr == trig[t]
        parsed == ParseRef(tr.ref)
    IN /\ tr.tpc = "clone"
       /\ \/ /\ parsed.err # "nil"
             /\ trig' = [trig EXCEPT ![t] = AbortRun(tr, "ref")]
             /\ UNCHANGED tree
          \/ /\ parsed.err = "nil"
             /\ parsed.branch \in DOMAIN RemoteTips
             /\ ~tree.exists
             /\ tree' = [exists |-> TRUE, branch |-> parsed.branch,
                         head |-> RemoteTips[parsed.branch], gen |-> tree.gen + 1]
             /\ trig' = [trig EXCEPT ![t] =
                            [tr EXCEPT !.cloned = parsed.branch,
                                       !.cloneURL = FinalRepoURL(tr.repoURL),
                                       !.tpc = IF tr.kind = "manual"
                                               THEN "checkout" ELSE "load"]]
          \/ /\ parsed.err = "nil"
             /\ trig' = [trig EXCEPT ![t] =
                            AbortRun([tr EXCEPT !.cloneURL = FinalRepoURL(tr.repoURL)],
                                     "clone")]
             /\ UNCHANGED tree
       /\ UNCHANGED <<authData, pipelineVars, storeVars>>

\* TriggerManualRun after the clone: CheckoutCommit when a commit SHA was given,
\* else CheckoutBranch unless the branch is empty, main or master. git checkout
\* fails without a working tree, on an unknown commit and on an unknown branch;
\* a commit is checked out detached.
TrigCheckout(t) ==
    LET tr == trig[t]
        go == [tr EXCEPT !.tpc = "readback"]
    IN /\ tr.tpc = "checkout"
       /\ IF tr.sha # ""
          THEN IF tree.exists /\ tr.sha \in Commits
               THEN /\ tree' = [tree EXCEPT !.head = tr.sha, !.branch = <<"HEAD">>]
                    /\ trig' = [trig EXCEPT ![t] = go]
               ELSE /\ trig' = [trig EXCEPT ![t] = AbortRun(tr, "checkout")]
                    /\ UNCHANGED tree
          ELSE IF tr.branch \notin {<<>>, <<"main">>, <<"master">>}
          THEN IF tree.exists /\ tr.branch \in DOMAIN RemoteTips
               THEN /\ tree' = [tree EXCEPT !.head = RemoteTips[tr.branch],
                                            !.branch = tr.branch]
                    /\ trig' = [trig EXCEPT ![t] = go]
               ELSE /\ trig' = [trig EXCEPT ![t] = AbortRun(tr, "checkout")]
                    /\ UNCHANGED tree
          ELSE /\ trig' = [trig EXCEPT ![t] = go]
               /\ UNCHANGED tree
       /\ UNCHANGED <<authData, pipelineVars, storeVars>>

\* TriggerManualRun reading the tree back: GetCurrentCommit, else "unknown";
\* GetCurrentBranch, else the requested branch, else "unknown"
TrigReadBackAborts(t) ==
    LET tr == trig[t]
    IN /\ tr.tpc = "readback"
       /\ trig' = [trig EXCEPT ![t] =
              IF tree.exists
              THEN [tr EXCEPT !.tpc = "load", !.effSHA = tree.head,
                              !.effBranch = tree.branch]
              ELSE [tr EXCEPT !.tpc = "done", !.resp = "error",
                              !.failedAt = "readback", !.effSHA = "unknown"]]
       /\ UNCHANGED <<tree, authData, pipelineVars, storeVars>>

TrigReadBack(t) ==
    LET tr == trig[t]
    IN /\ tr.tpc = "readback"
       /\ trig' = [trig EXCEPT ![t] =
              [tr EXCEPT !.tpc = "load",
                         !.effSHA = IF tree.exists THEN tree.head ELSE "unknown",
                         !.effBranch = IF tree.exists THEN tree.branch
                                       ELSE IF tr.branch # <<>> THEN tr.branch
                                       ELSE <<"unknown">>]]
       /\ UNCHANGED <<tree, authData, pipelineVars, storeVars>>

\* the commit message of the run: HeadCommit.Message of the push event; for a
\* manual run what GetCommitDetails reads, "Manual trigger" when it fails, and a
\* fixed text when the commit is unknown
CommitMsgs(tr) ==
    IF tr.kind = "webhook" THEN {IF tr.sha = "" THEN "" ELSE "message"}
    ELSE IF tr.effSHA = "unknown"
    THEN {"Manual trigger (no specific commit SHA determined)"}
    ELSE {"message", "Manual trigger"}

\* the commit author that goes with the message
CommitAuthorOf(tr) ==
    IF tr.kind = "webhook" THEN (IF tr.sha = "" THEN "" ELSE "author")
    ELSE IF tr.commitMsg = "message" THEN "author" ELSE "N/A"

\* A slip that logs the LoadConfig error and goes on with an empty definition.
TrigLoadIgnoresError(t) ==
    LET tr == trig[t]
    IN /\ tr.tpc = "load"
       /\ \/ /\ tree.exists
             /\ \E msg \in CommitMsgs(tr) :
                    trig' = [trig EXCEPT ![t] =
                                [tr EXCEPT !.tpc = "exec", !.commitMsg = msg]]
          \/ trig' = [trig EXCEPT ![t] = [tr EXCEPT !.tpc = "exec", !.failedAt = "load"]]
       /\ UNCHANGED <<tree, authData, pipelineVars, storeVars>>

\* config.LoadConfig("temp_repo/.ci.yaml"), which fails without the file or on
\* invalid yaml; TriggerManualRun then asks GetCommitDetails for author and message
TrigLoad(t) ==
    LET tr == trig[t]
    IN /\ tr.tpc = "load"
       /\ \/ /\ tree.exists
             /\ \E msg \in CommitMsgs(tr) :
                    trig' = [trig EXCEPT ![t] =
                                [tr EXCEPT !.tpc = "exec", !.commitMsg = msg]]
          \/ trig' = [trig EXCEPT ![t] = AbortRun(tr, "load")]
       /\ UNCHANGED <<tree, authData, pipelineVars, storeVars>>

\* pipeline.ExecutePipeline(cfg) starts: the steps run with temp_repo as their
\* directory, on whatever is checked out there
TrigExecStart(t) ==
    LET tr == trig[t]
    IN /\ tr.tpc = "exec"
       /\ trig' = [trig EXCEPT ![t] =
              [tr EXCEPT !.tpc = "running", !.ranSteps = TRUE,
                         !.execHead = IF tree.exists THEN tree.head ELSE "none"]]
       /\ UNCHANGED <<tree, authData, pipelineVars, storeVars>>

\* pipeline.ExecutePipeline(cfg) returns
TrigExecEnd(t) ==
    LET tr == trig[t]
    IN /\ tr.tpc = "running"
       /\ trig' = [trig EXCEPT ![t] = [tr EXCEPT !.tpc = "store"]]
       /\ UNCHANGED <<tree, authData, pipelineVars, storeVars>>

\* strings.TrimPrefix(fullRef, "refs/heads/")
TrimHeadsPrefix(parts) ==
    IF Len(parts) > 2 /\ parts[1] = "refs" /\ parts[2] = "heads"
    THEN SubSeq(parts, 3, Len(parts))
    ELSE parts

\* what a failed storage.StoreRun does to the trigger: WebhookHandler answers 500,
\* TriggerManualRun logs a warning and returns nil
StoreFailed(tr) ==
    IF tr.kind = "webhook"
    THEN AbortRun(tr, "store")
    ELSE [tr EXCEPT !.tpc = "done", !.resp = "ok", !.failedAt = "store"]

\* storage.StoreRun with the trigger's metadata for the definition c and the
\* results ExecutePipeline returned, and the answer to the caller
TrigStoreRun(t, c, results) ==
    LET tr == trig[t]
    IN /\ tr.tpc = "store"
       /\ \/ /\ IF tr.kind = "webhook"
                THEN StoreRunWrites(c, results, "owner/repo",
                                    TrimHeadsPrefix(tr.ref), tr.sha, tr.commitMsg,
                                    CommitAuthorOf(tr),
                                    "sender", 0, 0)
                ELSE StoreRunWrites(c, results, "owner/repo",
                                    tr.effBranch, tr.effSHA, tr.commitMsg,
                                    CommitAuthorOf(tr),
                                    "CLI User", 0, 0)
             /\ trig' = [trig EXCEPT ![t] =
                    [tr EXCEPT !.tpc = "done", !.resp = "ok", !.persisted = TRUE,
                               !.recIdx = Len(stored) + 1]]
          \/ /\ trig' = [trig EXCEPT ![t] = StoreFailed(tr)]
             /\ dirExists' = TRUE
             /\ UNCHANGED <<clock, files, stored, inflight>>
       /\ UNCHANGED <<tree, authData, pipelineVars>>

\* the two steps above for a definition with the jobs build and test
TrigStore(t) == TrigStoreRun(t, StoredConfigBuildTest, ResultsOf(StoredConfigBuildTest))

TriggerNext ==
    \E t \in Triggers :
        \/ TrigRemove(t)
        \/ TrigClone(t)
        \/ TrigCheckout(t)
        \/ TrigReadBack(t)
        \/ TrigLoad(t)
        \/ TrigExecStart(t)
        \/ TrigExecEnd(t)
        \/ TrigStore(t)

TriggerSpec == TriggerInit /\ [][TriggerNext]_vars

\* the same handlers, started under each state of auth_data
CredentialSpec == CredentialInit /\ [][TriggerNext]_vars

-----------------------------------------------------------------------------
(* storage.StoreRepoAuth and the pushes that look the credential up *)

\* owner/repo names that differ only in where "/" and "_" stand
RepoNames ==
    {TheRepo, <<"a", "_", "b", "/", "c">>, <<"a", "/", "b", "_", "c">>}

\* the token of the auth command; the model gives each repository its own
TokenFor(repoName) == <<"token", "of">> \o repoName

\* StoreRepoAuth(repoName, githubToken) returning nil: auth_data/<authID>.json
\* holds the RepoAuth
StoreRepoAuth(repoName, githubToken) ==
    /\ authData' = MapPut(authData, AuthID(repoName), RepoAuthFile(repoName, githubToken))
    /\ UNCHANGED <<trig, tree, pipelineVars, storeVars>>

\* a push to main of each repository
AuthTriggers ==
    {[NewTrigger("webhook", <<"refs", "heads", "main">>, <<>>, "c2")
        EXCEPT !.repoURL = GithubURL(r)] : r \in RepoNames}

AuthInit ==
    /\ cfg = EmptyMap
    /\ pc = "idle"
    /\ pending = {}
    /\ cur = ""
    /\ stepIdx = 0
    /\ jobResult = NoJobResult
    /\ jobResults = EmptyMap
    /\ err = "none"
    /\ log = <<>>
    /\ clock = 0
    /\ files = EmptyMap
    /\ stored = <<>>
    /\ dirExists = FALSE
    /\ inflight = NoRun
    /\ trig \in [Triggers -> AuthTriggers]
    /\ tree = NoTree
    /\ authData = EmptyMap
    /\ gor = EmptyMap

AuthNext ==
    \/ \E r \in RepoNames : StoreRepoAuth(r, TokenFor(r))
    \/ \E t \in Triggers : TrigRemove(t)
    \/ \E t \in Triggers : TrigClone(t)
    \/ \E t \in Triggers : TrigLoad(t)
    \/ \E t \in Triggers : TrigExecStart(t)
    \/ \E t \in Triggers : TrigExecEnd(t)
    \/ \E t \in Triggers : TrigStore(t)

AuthSpec == AuthInit /\ [][AuthNext]_vars

-----------------------------------------------------------------------------
(* WebhookHandler: which requests start a run *)

\* strings.Split("", "/"): the empty ref
EmptyRef == <<"">>

\* an HTTP request to the webhook endpoint: its method, its X-GitHub-Event
\* header, whether the body decodes as a PushEvent, and the event's deleted,
\* repository.clone_url and ref fields
NewRequest(method, event, decodes, deleted, url, ref) ==
    [method |-> method, event |-> event, decodes |-> decodes, deleted |-> deleted]
    @@ [NewTrigger("webhook", ref, <<>>, "c2") EXCEPT !.repoURL = url, !.tpc = "request"]

GoodPush == NewRequest("POST", "push", TRUE, FALSE, GithubURL(TheRepo), <<"refs", "heads", "main">>)

WebhookRequests ==
    {GoodPush,
     [GoodPush EXCEPT !.method = "GET"],
     [GoodPush EXCEPT !.event = "ping"],
     [GoodPush EXCEPT !.event = "issues"],
     [GoodPush EXCEPT !.decodes = FALSE],
     [GoodPush EXCEPT !.deleted = TRUE],
     [GoodPush EXCEPT !.repoURL = NoURL],
     [GoodPush EXCEPT !.ref = EmptyRef]}

WebhookInit ==
    /\ cfg = EmptyMap
    /\ pc = "idle"
    /\ pending = {}
    /\ cur = ""
    /\ stepIdx = 0
    /\ jobResult = NoJobResult
    /\ jobResults = EmptyMap
    /\ err = "none"
    /\ log = <<>>
    /\ clock = 0
    /\ files = EmptyMap
    /\ stored = <<>>
    /\ dirExists = FALSE
    /\ inflight = NoRun
    /\ trig \in [Triggers -> WebhookRequests]
    /\ tree = NoTree
    /\ authData = EmptyMap
    /\ gor = EmptyMap

\* the answer to a request that starts no run
Answer(tr, status) == [tr EXCEPT !.tpc = "done", !.resp = status]

\* A slip that drops the pushEvent.Deleted check.
WebhookDispatchIgnoresDeleted(tr) ==
    IF tr.method # "POST" THEN Answer(tr, "405")
    ELSE IF tr.event = "push"
    THEN IF ~tr.decodes THEN Answer(tr, "400")
         ELSE IF tr.repoURL # NoURL /\ tr.ref # EmptyRef THEN [tr EXCEPT !.tpc = "new"]
         ELSE Answer(tr, "ok")
    ELSE Answer(tr, "ok")

\* WebhookHandler up to the call of cloneRepo: the method check, the switch on
\* the event type, json.Unmarshal, the deleted check and the check of the
\* clone URL and the ref; ping and every other event type are answered 200
WebhookDispatch(tr) ==
    IF tr.method # "POST" THEN Answer(tr, "405")
    ELSE IF tr.event = "push"
    THEN IF ~tr.decodes THEN Answer(tr, "400")
         ELSE IF tr.deleted THEN Answer(tr, "ok")
         ELSE IF tr.repoURL # NoURL /\ tr.ref # EmptyRef THEN [tr EXCEPT !.tpc = "new"]
         ELSE Answer(tr, "ok")
    ELSE Answer(tr, "ok")

WebhookReceive(t) ==
    /\ trig[t].tpc = "request"
    /\ trig' = [trig EXCEPT ![t] = WebhookDispatch(trig[t])]
    /\ UNCHANGED <<tree, authData, pipelineVars, storeVars>>

WebhookNext ==
    \/ \E t \in Triggers : WebhookReceive(t)
    \/ \E t \in Triggers : TrigRemove(t)
    \/ \E t \in Triggers : TrigClone(t)
    \/ \E t \in Triggers : TrigLoad(t)
    \/ \E t \in Triggers : TrigExecStart(t)
    \/ \E t \in Triggers : TrigExecEnd(t)
    \/ \E t \in Triggers : TrigStore(t)

WebhookSpec == WebhookInit /\ [][WebhookNext]_vars

-----------------------------------------------------------------------------
(* One trigger from request to record, with ExecutePipeline run step by step *)

\* steps of the loaded definition: one that succeeds, one that fails and one
\* whose process never exits
RunStepChoices ==
    { [Name |-> "compile", Run |-> "true"],
      [Name |-> "check", Run |-> "false"],
      [Name |-> "serve", Run |-> "sleep infinity"] }

\* the definitions LoadConfig reads from temp_repo/.ci.yaml
RunConfigs ==
    UNION {[J -> [Needs : {<<>>},
                  Steps : UNION {[1..n -> RunStepChoices] : n \in 0..MaxSteps}]] :
              J \in SUBSET JobNames}

\* a push to main and a manual run of main
RunTriggers ==
    {NewTrigger("webhook", <<"refs", "heads", "main">>, <<>>, "c2"),
     NewTrigger("manual", ManualFullRef(<<"main">>), <<"main">>, "")}

TriggeredRunInit ==
    /\ cfg \in RunConfigs
    /\ pc = "idle"
    /\ pending = {}
    /\ cur = ""
    /\ stepIdx = 0
    /\ jobResult = NoJobResult
    /\ jobResults = EmptyMap
    /\ err = "none"
    /\ log = <<>>
    /\ clock = 0
    /\ files = EmptyMap
    /\ stored = <<>>
    /\ dirExists = FALSE
    /\ inflight = NoRun
    /\ trig \in [{"t1"} -> RunTriggers]
    /\ tree = NoTree
    /\ authData = EmptyMap
    /\ gor = EmptyMap

\* results, err := pipeline.ExecutePipeline(*cfg) is called
CallExecutePipeline(t) ==
    LET tr == trig[t]
    IN /\ tr.tpc = "exec"
       /\ pc = "idle"
       /\ trig' = [trig EXCEPT ![t] =
              [tr EXCEPT !.tpc = "running", !.ranSteps = TRUE,
                         !.execHead = IF tree.exists THEN tree.head ELSE "none"]]
       /\ pc' = "loop"
       /\ pending' = DOMAIN cfg
       /\ UNCHANGED <<cfg, cur, stepIdx, jobResult, jobResults, err, log, gor>>
       /\ UNCHANGED <<tree, authData, storeVars>>

\* the call returns to the handler
ExecutePipelineReturns(t) ==
    LET tr == trig[t]
    IN /\ tr.tpc = "running"
       /\ pc = "done"
       /\ trig' = [trig EXCEPT ![t] = [tr EXCEPT !.tpc = "store"]]
       /\ UNCHANGED <<tree, authData, pipelineVars, storeVars>>

\* storage.StoreRun(*cfg, results, ...)
StoreResults(t) == TrigStoreRun(t, cfg, jobResults)

TriggeredRunNext ==
    \/ \E t \in DOMAIN trig : TrigRemove(t)
    \/ \E t \in DOMAIN trig : TrigClone(t)
    \/ \E t \in DOMAIN trig : TrigCheckout(t)
    \/ \E t \in DOMAIN trig : TrigReadBack(t)
    \/ \E t \in DOMAIN trig : TrigLoad(t)
    \/ \E t \in DOMAIN trig : CallExecutePipeline(t)
    \/ \E t \in DOMAIN trig : ExecutePipelineReturns(t)
    \/ \E t \in DOMAIN trig : StoreResults(t)
    \/ PipelineNext

TriggeredRunSpec == TriggeredRunInit /\ [][TriggeredRunNext]_vars

-----------------------------------------------------------------------------
(* The needs graph of a definition (config.Job.Needs) *)

\* the jobs of c that j names in its needs list
NeedsOf(c, j) == Range(c[j].Needs) \cap DOMAIN c

RECURSIVE ReachAfter(_, _, _)
\* the jobs reachable from the set S along needs edges in at most n more hops
ReachAfter(c, S, n) ==
    IF n = 0 THEN S
    ELSE ReachAfter(c, S \cup UNION {NeedsOf(c, j) : j \in S}, n - 1)

\* j lies on a needs cycle: it is reachable from the jobs it needs
HasCycle(c) ==
    \E j \in DOMAIN c : j \in ReachAfter(c, NeedsOf(c, j), Cardinality(DOMAIN c))

\* some needs entry names no job of the definition
HasUnknownNeed(c) == \E j \in DOMAIN c : Range(c[j].Needs) \ DOMAIN c # {}

\* positions of the log at which event ev of job j was recorded
Events(ev, j) == {i \in DOMAIN log : log[i].ev = ev /\ log[i].job = j}

StepEvents == {i \in DOMAIN log : log[i].ev = "step"}

\* 1-based position of the first step of steps whose process exits non-zero, 0 if none
FirstFailing(steps) ==
    IF \E i \in DOMAIN steps : ExitCode(steps[i].Run) # 0
    THEN CHOOSE i \in DOMAIN steps :
            /\ ExitCode(steps[i].Run) # 0
            /\ \A k \in 1..(i - 1) : ExitCode(steps[k].Run) = 0
    ELSE 0

-----------------------------------------------------------------------------
(* C1..C6: ExecutePipeline *)

C1_NeverRerun ==
    \A j \in DOMAIN cfg :
        /\ Cardinality(Events("start", j)) <= 1
        /\ Cardinality(Events("end", j)) <= 1
        /\ \A a, b \in Events("step", j) : log[a].idx = log[b].idx => a = b

C1_OneResultPerJob ==
    /\ DOMAIN jobResults = DOMAIN cfg
    /\ \A j \in DOMAIN cfg :
        /\ Cardinality(Events("start", j)) = 1
        /\ Cardinality(Events("end", j)) = 1
        /\ jobResults[j].Status \in {"Success", "Failure"}

\* C1: for a definition with an acyclic needs graph (every step process exits),
\* ExecutePipeline terminates, no job is started, finished or given a step twice,
\* and on return every job has been run exactly once, is Succeeded or Failed, and
\* the returned map holds exactly one JobResult per job.
C1_TerminatesEachJobOnce ==
    /\ [](~HasCycle(cfg) => C1_NeverRerun /\ (pc = "done" => C1_OneResultPerJob))
    /\ (~HasCycle(cfg)) ~> (pc = "done")

\* A returned run of a two-job definition with a needs edge and no cycle.
C1_Witness ==
    /\ pc = "done"
    /\ ~HasCycle(cfg)
    /\ DOMAIN cfg = JobNames
    /\ \E j \in DOMAIN cfg : NeedsOf(cfg, j) # {}
    /\ \E j \in DOMAIN cfg : jobResults[j].Status = "Success"
    /\ \E j \in DOMAIN cfg : jobResults[j].Status = "Failure"

\* C2: no step of a job J starts before every job named in J's needs list has
\* reached a terminal state (stated for definitions that are acyclic and name
\* only existing jobs).
C2_NeedsTerminalBeforeStep ==
    (~HasCycle(cfg) /\ ~HasUnknownNeed(cfg)) =>
        \A i \in StepEvents :
            \A d \in NeedsOf(cfg, log[i].job) :
                \E k \in 1..(i - 1) : log[k].ev = "end" /\ log[k].job = d

\* C3: a definition whose needs graph has a cycle is rejected with a
\* DependencyCycle error and no step of any job is executed.
C3_CycleRejected ==
    HasCycle(cfg) =>
        /\ StepEvents = {}
        /\ pc = "done" => err = "DependencyCycle"

\* C4: a definition in which a needs list names a job that does not exist is
\* rejected with an UnknownDependency error and no step of any job is executed.
C4_UnknownDependencyRejected ==
    HasUnknownNeed(cfg) =>
        /\ StepEvents = {}
        /\ pc = "done" => err = "UnknownDependency"

\* C5: a finished job whose first failing step is at position k has had exactly
\* its steps 1..k executed, has status Failure, and holds exactly k StepResults:
\* Success for steps 1..k-1 and Failure for step k.
C5_StopAtFirstFailure ==
    \A j \in DOMAIN jobResults :
        LET steps == cfg[j].Steps
            k == FirstFailing(steps)
            res == jobResults[j]
        IN k > 0 =>
            /\ {log[i].idx : i \in Events("step", j)} = 1..k
            /\ Cardinality(Events("step", j)) = k
            /\ res.Status = "Failure"
            /\ Cardinality(DOMAIN res.Steps) = k
            /\ \A i \in 1..k :
                /\ steps[i].Name \in DOMAIN res.Steps
                /\ res.Steps[steps[i].Name].Status =
                        IF i < k THEN "Success" ELSE "Failure"

\* C6: the status of every JobResult is Failure if and only if at least one
\* StepResult it holds has status Failure, and Success otherwise.
C6_JobFailureIffStepFailure ==
    \A j \in DOMAIN jobResults :
        LET res == jobResults[j]
            anyFailed == \E s \in DOMAIN res.Steps : res.Steps[s].Status = "Failure"
        IN /\ res.Status = "Failure" <=> anyFailed
           /\ res.Status = "Success" <=> ~anyFailed

-----------------------------------------------------------------------------
(* C7..C10: the run store *)

\* the RunMetadata of the latest StoreRun that was given the identifier id
LastStored(id) ==
    stored[CHOOSE i \in DOMAIN stored :
              /\ stored[i].ID = id
              /\ \A k \in DOMAIN stored : stored[k].ID = id => k <= i]

\* ExecutePipeline returns ResultsOf(c) for the definitions StoreRun is given.
ResultsOfIsWhatExecutePipelineReturns ==
    (pc = "done" /\ cfg \in RunInputs) => jobResults = ResultsOf(cfg)

\* C7: for every result map passed to StoreRun, the persisted overall status is
\* Failure if and only if at least one JobResult of the map has status Failure,
\* and Success otherwise (also for the empty map).
C7_OverallStatus ==
    \A id \in DOMAIN files :
        LET passed == LastStored(id).Results
            anyFailed == \E j \in DOMAIN passed : passed[j].Status = "Failure"
        IN /\ files[id].status = "Failure" <=> anyFailed
           /\ files[id].status = "Success" <=> ~anyFailed

\* Persisted: a run with one succeeded and one failed job, and a run with no job.
C7_Witness ==
    /\ \E id \in DOMAIN files :
        /\ files[id].status = "Failure"
        /\ \E j \in DOMAIN files[id].results : files[id].results[j].status = "Success"
    /\ \E id \in DOMAIN files :
        /\ files[id].status = "Success"
        /\ files[id].results = EmptyMap

\* C8: after a successful StoreRun, GetRun with the identifier assigned to that
\* run returns a record equal to the one stored.
C8_RoundTrip ==
    \A i \in DOMAIN stored :
        GetRun(stored[i].ID) = [run |-> stored[i], err |-> "nil"]

Min(a, b) == IF a < b THEN a ELSE b

\* C9: for every limit >= 0 and n stored runs, GetRecentRuns(limit) returns
\* exactly min(limit, n) records, newest start time first, and no stored run
\* left out started later than a returned one (stated for runs stored at
\* pairwise distinct start times).
C9_RecentRuns ==
    (\A i, k \in DOMAIN stored : i # k => stored[i].StartTime # stored[k].StartTime) =>
    \A limit \in 0..MaxLimit :
        \A got \in GetRecentRuns(limit) :
            LET out == got.runs IN
            /\ Len(out) = Min(limit, Len(stored))
            /\ \A a, b \in DOMAIN out : a < b => out[a].StartTime >= out[b].StartTime
            /\ \A i \in DOMAIN stored :
                (\A a \in DOMAIN out :
                    <<out[a].ID, out[a].StartTime>> # <<stored[i].ID, stored[i].StartTime>>)
                => \A a \in DOMAIN out : out[a].StartTime >= stored[i].StartTime

\* C10: distinct runs receive distinct identifiers: after k successful StoreRun
\* calls there are k durable records, each addressable by its own identifier.
C10_DistinctRunIds ==
    /\ Cardinality(DOMAIN files) = Len(stored)
    /\ \A i, k \in DOMAIN stored : i # k => stored[i].ID # stored[k].ID

-----------------------------------------------------------------------------
(* C11..C13: the run store *)

\* C11: once a run record has been persisted, no later operation changes or
\* replaces the record that GetRun returns for its identifier.
C11_PersistedRecordNeverChanges ==
    [][\A id \in DOMAIN files : id \in DOMAIN files' /\ files'[id] = files[id]]_vars

\* the identifiers GetRun is asked for
RunIDs == 0..(FormatRunID(MaxClock) + 1)

\* C12: GetRun with an identifier for which no run record exists fails with a
\* run-not-found error and returns no record.
C12_GetRunNotFound ==
    \A id \in RunIDs \ DOMAIN files :
        /\ GetRun(id).err = "run not found"
        /\ GetRun(id).run = NoRun

\* Some runs are stored and an identifier between theirs has no record.
C12_Witness ==
    \E a, b, c \in RunIDs :
        /\ a < b /\ b < c
        /\ a \in DOMAIN files /\ c \in DOMAIN files /\ b \notin DOMAIN files
        /\ GetRun(a).err = "nil"

\* C13: while no run has been stored, GetRecentRuns(limit), limit >= 0, returns
\* an empty sequence and no error, both when the run directory does not exist
\* and when it exists but holds no run record.
C13_NoRunsYet ==
    stored = <<>> =>
        \A limit \in 0..MaxLimit :
            GetRecentRuns(limit) = {[runs |-> <<>>, err |-> "nil"]}

\* No run stored: the directory exists, empty, after a StoreRun that could not
\* create its file.
C13_Witness == stored = <<>> /\ dirExists /\ files = EmptyMap

-----------------------------------------------------------------------------
(* C14..C19: triggers and the working tree *)

\* the trigger is between the start of its cloneRepo and the return of its
\* ExecutePipeline: it clones, checks out, loads the definition or runs steps
UsesTree(tr) ==
    tr.tpc \in {"clone", "checkout", "readback", "load", "exec", "running"}

\* a ref of the shape refs/tags/<name>
IsTagRef(parts) == Len(parts) = 3 /\ parts[1] = "refs" /\ parts[2] = "tags"

\* a ref of the shape refs/heads/<branch>
IsBranchRef(parts) == Len(parts) > 2 /\ parts[1] = "refs" /\ parts[2] = "heads"

\* C14: at most one run uses the working tree at a time: while one trigger is
\* cloning, checking out or executing steps in temp_repo, no other trigger is
\* between the removal of the tree and the end of its own steps.
C14_OneRunInTheTree ==
    Cardinality({t \in Triggers : UsesTree(trig[t])}) <= 1

\* C15: every trigger that has ended has either persisted its record and
\* reported success, or reported an error and persisted nothing; success is
\* never reported without a persisted record.
C15_RecordOrError ==
    \A t \in Triggers :
        /\ trig[t].resp = "ok" => trig[t].persisted
        /\ trig[t].tpc = "done" =>
               \/ trig[t].resp = "ok" /\ trig[t].persisted
               \/ trig[t].resp = "error" /\ ~trig[t].persisted

\* C16: a trigger whose acquisition failed (the old tree could not be removed,
\* the ref was rejected, the clone failed or the checkout failed) has ended with
\* an error, has executed no step and has stored no record.
C16_AcquisitionFailureAborts ==
    \A t \in Triggers :
        trig[t].failedAt \in {"remove", "ref", "clone", "checkout"} =>
            /\ trig[t].tpc = "done"
            /\ trig[t].resp = "error"
            /\ ~trig[t].ranSteps
            /\ ~trig[t].persisted

C16_Witness ==
    \E t, u \in Triggers :
        /\ trig[t].failedAt = "checkout" /\ trig[t].cloned # <<>>
        /\ trig[u].failedAt = "ref"
        /\ trig[t].resp = "error" /\ trig[u].resp = "error"
        /\ stored = <<>>

C18_UnresolvedRefClonesMain ==
    [][\A t \in Triggers :
          (/\ ~IsBranchRef(trig[t].ref)
           /\ ~IsTagRef(trig[t].ref)
           /\ trig[t].tpc = "clone"
           /\ trig'[t].tpc # "clone") =>
              \/ /\ trig'[t].failedAt = "clone"
                 /\ tree' = tree
              \/ /\ trig'[t].failedAt = "none"
                 /\ trig'[t].resp = "none"
                 /\ trig'[t].cloned = <<"main">>
                 /\ tree'.exists
                 /\ tree'.branch = <<"main">>
                 /\ tree'.head = RemoteTips[<<"main">>]]_vars

C18_Witness ==
    \E t \in Triggers :
        /\ trig[t].ref = <<"weird-ref">>
        /\ trig[t].cloned = <<"main">>
        /\ trig[t].resp = "ok"
        /\ trig[t].persisted

\* C19: a trigger for a branch ref that supplied a commit SHA and runs alone
\* executes its steps on a tree checked out at exactly that commit.
C19_SuppliedCommitCheckedOut ==
    \A t \in Triggers :
        (/\ IsBranchRef(trig[t].ref)
         /\ trig[t].sha # ""
         /\ trig[t].ranSteps
         /\ \A u \in Triggers \ {t} : trig[u].tpc = "new") =>
            trig[t].execHead = trig[t].sha

-----------------------------------------------------------------------------
(* C20: ExecutePipeline *)

\* the jobs that j needs, directly or through other jobs
DependsOn(c, j) == ReachAfter(c, NeedsOf(c, j), Cardinality(DOMAIN c))

\* the steps of job j that the stop-on-failure rule attempts
Attempted(c, j) ==
    IF FirstFailing(c[j].Steps) > 0
    THEN 1..FirstFailing(c[j].Steps) ELSE 1..Len(c[j].Steps)

\* C20: a step failure is local to its job: when ExecutePipeline has returned
\* and a job has failed, every other job that does not depend on it has had all
\* of its steps attempted under the stop-on-failure rule and has its own
\* JobResult in the returned map.
C20_FailureIsLocal ==
    pc = "done" =>
        \A f \in DOMAIN cfg :
            FirstFailing(cfg[f].Steps) > 0 =>
                \A o \in DOMAIN cfg \ {f} :
                    f \notin DependsOn(cfg, o) =>
                        /\ {log[i].idx : i \in Events("step", o)} = Attempted(cfg, o)
                        /\ o \in DOMAIN jobResults
                        /\ jobResults[o].Status =
                             IF FirstFailing(cfg[o].Steps) > 0 THEN "Failure" ELSE "Success"

\* build failed first; test, which does not need build, then ran both its steps.
C20_Witness ==
    /\ pc = "done"
    /\ DOMAIN cfg = JobNames
    /\ jobResults["build"].Status = "Failure"
    /\ "build" \notin DependsOn(cfg, "test")
    /\ Cardinality(Events("step", "test")) = 2
    /\ jobResults["test"].Status = "Success"
    /\ \A i \in Events("end", "build") : \A k \in Events("start", "test") : i < k

-----------------------------------------------------------------------------
(* C21: the shared result map *)

\* the goroutines that are inside the assignment jobResults[j.Name] = result
Writers == {j \in DOMAIN gor : gor[j].gpc = "writing"}

\* C21: writes into the shared job-result map are mutually exclusive: at no
\* time are two jobs inside their write of a JobResult into the map.
C21_OneWriterAtATime == Cardinality(Writers) <= 1

-----------------------------------------------------------------------------
(* C22: readers during a StoreRun *)

\* the complete records a reader may be given for id: what some finished
\* StoreRun wrote, or what the StoreRun in flight is writing
CompleteRecords(id) ==
    {DecodeRun(EncodeRun(stored[i])) : i \in {k \in 1..Len(stored) : stored[k].ID = id}}
    \cup (IF inflight # NoRun /\ inflight.ID = id
          THEN {DecodeRun(EncodeRun(inflight))} ELSE {})

\* C22: a run-record write is atomic for readers: in every state a StoreRun
\* passes through, GetRun(id) answers either run-not-found or a complete record
\* of that id, and every record GetRecentRuns returns is a complete one.
C22_ReadersSeeNoneOrComplete ==
    /\ \A id \in RunIDs :
           \/ GetRun(id).err = "run not found" /\ GetRun(id).run = NoRun
           \/ GetRun(id).err = "nil" /\ GetRun(id).run \in CompleteRecords(id)
    /\ \A got \in GetRecentRuns(MaxLimit) :
           \A i \in 1..Len(got.runs) : got.runs[i] \in CompleteRecords(got.runs[i].ID)

-----------------------------------------------------------------------------
(* C23: ExecuteStep *)

\* C23: for every step of the definition, ExecuteStep returns either a
\* StepResult with the step's name and status Success and no error (the process
\* exited with zero), or an error and the zero StepResult (cmd.Run failed);
\* never a populated result together with an error.
C23_ResultOrError ==
    \A j \in DOMAIN cfg :
        \A i \in DOMAIN cfg[j].Steps :
            LET step == cfg[j].Steps[i]
                r == ExecuteStep(step)
            IN /\ ExitCode(step.Run) = 0 =>
                      /\ r.err = "nil"
                      /\ r.result.Name = step.Name
                      /\ r.result.Status = "Success"
               /\ ExitCode(step.Run) # 0 =>
                      /\ r.err # "nil"
                      /\ r.result = ZeroStepResult
               /\ ~(r.err # "nil" /\ r.result # ZeroStepResult)

\* a job ran a step that exited with zero and then one that did not
C23_Witness ==
    /\ pc = "done"
    /\ \E j \in DOMAIN cfg :
          /\ Len(cfg[j].Steps) = 2
          /\ ExitCode(cfg[j].Steps[1].Run) = 0
          /\ ExitCode(cfg[j].Steps[2].Run) # 0
          /\ Cardinality(Events("step", j)) = 2
          /\ jobResults[j].Status = "Failure"

-----------------------------------------------------------------------------
(* C24: stored credentials *)

\* the stored credential of repoName is missing, unreadable or empty
NoUsableCredential(repoName) ==
    GetRepoAuth(repoName).err # "nil" \/ GetRepoAuth(repoName).auth.GithubToken = ""

\* the trigger's cloneRepo got past the removal and the ref
ReachedClone(tr) ==
    tr.tpc \notin {"new", "clone"} /\ tr.failedAt \notin {"remove", "ref"}

\* C24: with a missing, unreadable or empty stored credential the acquisition
\* is not aborted for it: every trigger whose cloneRepo got past the removal
\* and the ref has run git clone, on the clone URL exactly as the trigger
\* supplied it.
C24_CloneWithoutCredential ==
    NoUsableCredential(TheRepo) =>
        \A t \in Triggers :
            ReachedClone(trig[t]) =>
                /\ trig[t].cloneURL = GithubURL(TheRepo)
                /\ trig[t].cloneURL = trig[t].repoURL
                /\ trig[t].failedAt \in {"none", "clone", "checkout", "load", "store"}

\* a webhook trigger stored its run and a manual trigger cloned while the
\* credential file gave no usable token
C24_Witness ==
    /\ authData # EmptyMap
    /\ NoUsableCredential(TheRepo)
    /\ \E t, u \in Triggers :
          /\ trig[t].kind = "webhook" /\ trig[t].persisted
          /\ trig[u].kind = "manual" /\ trig[u].cloned # <<>>
          /\ trig[t].cloneURL = GithubURL(TheRepo)
          /\ trig[u].cloneURL = GithubURL(TheRepo)

-----------------------------------------------------------------------------
(* C25: read-back failures of a manual run *)

\* the record a manual run stores when some read-back query failed: "unknown"
\* for a commit that could not be read, the requested branch or "unknown" for a
\* branch that could not be read, "N/A" for an author that could not be read
SentinelRecord(tr, m) ==
    /\ m.TriggeredBy = "CLI User"
    /\ m.CommitSHA = tr.effSHA
    /\ m.Branch = tr.effBranch
    /\ tr.effSHA = "unknown" =>
           /\ m.Branch = (IF tr.branch # <<>> THEN tr.branch ELSE <<"unknown">>)
           /\ m.CommitAuthor = "N/A"
    /\ tr.commitMsg # "message" => m.CommitAuthor = "N/A"

\* a read-back query of the manual run failed
ReadBackFailed(tr) ==
    /\ tr.kind = "manual"
    /\ tr.tpc \notin {"new", "clone", "checkout", "readback"}
    /\ tr.failedAt \notin {"remove", "ref", "clone", "checkout"}
    /\ tr.effSHA = "unknown" \/ tr.commitMsg \notin {"", "message"}

\* C25: a manual run in which a read-back query failed is not aborted for it:
\* it ends with an error only when the definition does not load, it has executed
\* the pipeline once the definition is loaded, and when StoreRun succeeds its
\* record is stored with the sentinel or the requested value.
C25_ReadBackFailureGoesOn ==
    \A t \in Triggers :
        ReadBackFailed(trig[t]) =>
            /\ trig[t].failedAt \in {"none", "load", "store"}
            /\ trig[t].resp = "error" <=> trig[t].failedAt = "load"
            /\ (trig[t].tpc \in {"store", "done"} /\ trig[t].failedAt # "load") =>
                   trig[t].ranSteps
            /\ trig[t].persisted =>
                   \E i \in DOMAIN stored : SentinelRecord(trig[t], stored[i])

\* a manual run for branch feature could read neither commit nor branch and
\* stored its record with "unknown" and the requested branch
C25_Witness ==
    \E t \in Triggers :
        /\ trig[t].kind = "manual"
        /\ trig[t].branch = <<"feature">>
        /\ trig[t].effSHA = "unknown"
        /\ trig[t].ranSteps
        /\ trig[t].persisted
        /\ \E i \in DOMAIN stored :
              /\ stored[i].CommitSHA = "unknown"
              /\ stored[i].Branch = <<"feature">>
              /\ stored[i].CommitAuthor = "N/A"

-----------------------------------------------------------------------------
(* C26: the branch that is cloned *)

\* C26: for a ref refs/heads/B, also when B itself contains "/", the branch
\* cloneRepo has cloned is exactly B.
C26_ClonesTheBranchOfTheRef ==
    \A t \in Triggers :
        (IsBranchRef(trig[t].ref) /\ trig[t].cloned # <<>>) =>
            trig[t].cloned = SubSeq(trig[t].ref, 3, Len(trig[t].ref))

-----------------------------------------------------------------------------
(* C27: the commit of a run *)

\* C27: the commit SHA in the record of a run is the commit that was checked
\* out in temp_repo when the run's steps executed (stated for a trigger that
\* runs alone; a push event carries its head commit, which the remote branch
\* may have left behind by the time of the clone).
C27_StoredCommitIsExecutedCommit ==
    \A t \in Triggers :
        (/\ trig[t].persisted
         /\ IsBranchRef(trig[t].ref)
         /\ trig[t].kind = "webhook" => trig[t].sha # ""
         /\ \A u \in Triggers \ {t} : trig[u].tpc = "new") =>
            stored[trig[t].recIdx].CommitSHA = trig[t].execHead

-----------------------------------------------------------------------------
(* C28: the steps of a job *)

\* C28: within a job the steps run strictly in definition order, one at a
\* time: the step processes of a job were started in increasing position
\* without a gap, and step i+1 was started only after step i had exited with
\* zero.
C28_StepsInOrder ==
    \A j \in DOMAIN cfg :
        /\ \A a, b \in Events("step", j) : a < b => log[a].idx < log[b].idx
        /\ \A a \in Events("step", j) :
               \/ log[a].idx = 1
               \/ \E b \in Events("step", j) :
                      /\ b < a
                      /\ log[b].idx = log[a].idx - 1
                      /\ ExitCode(cfg[j].Steps[log[b].idx].Run) = 0

\* one job ran both its steps, the other stopped after its failing first step
C28_Witness ==
    /\ pc = "done"
    /\ DOMAIN cfg = JobNames
    /\ Len(cfg["build"].Steps) = 2 /\ Len(cfg["test"].Steps) = 2
    /\ Cardinality(Events("step", "build")) = 2
    /\ Cardinality(Events("step", "test")) = 1
    /\ ExitCode(cfg["test"].Steps[1].Run) # 0

-----------------------------------------------------------------------------
(* C29, C30: the step collection of a JobResult *)

\* C29: each executed step contributes exactly one StepResult to its
\* JobResult: the JobResult of a finished job holds as many StepResults as
\* steps of the job were executed, also when two steps carry the same name.
C29_OneStepResultPerStep ==
    \A j \in DOMAIN jobResults :
        Cardinality(DOMAIN jobResults[j].Steps) = Cardinality(Events("step", j))

\* the JobResult the loop body of ExecutePipeline builds for a job with these
\* steps, from the step at position i on
RECURSIVE RunJobFrom(_, _, _)
RunJobFrom(steps, i, res) ==
    IF i > Len(steps) THEN res
    ELSE LET r == ExecuteStep(steps[i])
             put == MapPut(res.Steps, steps[i].Name, r.result)
         IN IF r.err # "nil"
            THEN [Status |-> "Failure", Steps |-> put]
            ELSE RunJobFrom(steps, i + 1, [res EXCEPT !.Steps = put])

RunJob(steps) == RunJobFrom(steps, 1, NewJobResult)

\* the names of the steps that ran, in the order they ran
ExecutedOrder(steps) ==
    LET k == FirstFailing(steps)
    IN [i \in 1..(IF k > 0 THEN k ELSE Len(steps)) |-> steps[i].Name]

DistinctNames(steps) ==
    \A a, b \in DOMAIN steps : a # b => steps[a].Name # steps[b].Name

\* C30: the order in which the steps of a job ran can be read back from its
\* JobResult: no other step sequence (with distinct step names) that ran in
\* another order leaves the same JobResult, on return from ExecutePipeline and
\* after the JobResult went through StoreRun and GetRun.
C30_OrderReadableFromJobResult ==
    pc = "done" =>
        \A j \in DOMAIN jobResults :
            /\ jobResults[j] = RunJob(cfg[j].Steps)
            /\ DistinctNames(cfg[j].Steps) =>
                   \A other \in StepSeqs :
                       (/\ DistinctNames(other)
                        /\ \/ RunJob(other) = jobResults[j]
                           \/ DecodeJobResult(EncodeJobResult(RunJob(other)))
                                  = DecodeJobResult(EncodeJobResult(jobResults[j])))
                       => ExecutedOrder(other) = ExecutedOrder(cfg[j].Steps)

-----------------------------------------------------------------------------
(* C31: ExecutePipeline returns after every job is terminal *)

\* a step process of job j is running or still to be started
StepOutstanding(j) ==
    \/ cur = j
    \/ j \in pending
    \/ j \in DOMAIN gor /\ gor[j].gpc = "run"

\* job j has reached a terminal state: its steps are over and its JobResult
\* has been written, or its write has ended
Terminal(j) ==
    /\ ~StepOutstanding(j)
    /\ \/ j \in DOMAIN jobResults
       \/ j \in DOMAIN gor /\ gor[j].gpc = "done"

\* C31: ExecutePipeline returns its map only after every job has reached a
\* terminal state: when it has returned, no step process of any job is
\* outstanding, every job is terminal, and the map is not written any more.
C31_ReturnsAfterAllJobsTerminal ==
    /\ [](pc = "done" => \A j \in DOMAIN cfg : Terminal(j))
    /\ [][pc = "done" => jobResults' = jobResults /\ gor' = gor]_vars

\* both variants have returned from a definition with two jobs that each ran
\* a step
C31_Witness ==
    /\ pc = "done"
    /\ Cardinality(DOMAIN cfg) = 2
    /\ \A j \in DOMAIN cfg : Len(cfg[j].Steps) > 0
    /\ DOMAIN gor = DOMAIN cfg
    /\ DOMAIN jobResults = DOMAIN cfg

-----------------------------------------------------------------------------
(* C32: concurrent admission of independent jobs *)

\* job j is Running: it has been started and has a step left to run
JobRunning(j) ==
    \/ cur = j /\ pc = "steps" /\ stepIdx <= Len(cfg[j].Steps)
    \/ j \in DOMAIN gor /\ gor[j].gpc = "run"

\* the sequential loop has at most one job Running in every reachable state
AtMostOneJobRunning == Cardinality({j \in DOMAIN cfg : JobRunning(j)}) <= 1

\* C32: jobs whose dependency sets are empty or fully satisfied are admitted
\* concurrently: while one job is Running, another job that is not started
\* yet and whose needs are empty or all terminal can be started, so that for
\* two jobs with no dependency between them both are Running at the same time.
C32_IndependentJobsAdmittedConcurrently ==
    \A j1, j2 \in DOMAIN cfg :
        (/\ j1 # j2
         /\ JobRunning(j1)
         /\ j2 \in pending
         /\ Len(cfg[j2].Steps) > 0
         /\ j1 \notin DependsOn(cfg, j2)
         /\ j2 \notin DependsOn(cfg, j1)
         /\ NeedsOf(cfg, j2) \subseteq DOMAIN jobResults)
        => ENABLED (NextJob \/ Spawn)

-----------------------------------------------------------------------------
(* C33: a step whose process never exits *)

\* the loop is inside ExecuteStep for a step of job j whose process never exits
HungStep(j) ==
    /\ cur = j
    /\ pc = "steps"
    /\ stepIdx <= Len(cfg[j].Steps)
    /\ ~Exits(cfg[j].Steps[stepIdx].Run)

\* C33: no timeout bounds a step: once a step whose process never exits has been
\* started, its job has no JobResult, ExecutePipeline has not returned, the
\* handler is still inside the call and no run record is stored, and that stays
\* so in every later state.
C33_HungStepHangsTheRun ==
    /\ [](\A j \in DOMAIN cfg :
             HungStep(j) =>
                 /\ j \notin DOMAIN jobResults
                 /\ pc # "done" /\ err = "none"
                 /\ stored = <<>> /\ files = EmptyMap
                 /\ \A t \in DOMAIN trig :
                        trig[t].tpc = "running" /\ ~trig[t].persisted)
    /\ [][\A j \in DOMAIN cfg : HungStep(j) => HungStep(j)']_vars

\* the second step of a job hangs after the other job has ended
C33_Witness ==
    \E j \in DOMAIN cfg :
        /\ HungStep(j)
        /\ stepIdx = 2
        /\ DOMAIN jobResults = DOMAIN cfg \ {j}
        /\ jobResults # EmptyMap
        /\ \A t \in DOMAIN trig : trig[t].tpc = "running"

-----------------------------------------------------------------------------
(* C34: cloneRepo removes temp_repo first *)

\* cloneRepo of this trigger returned the tag error or the git clone error
CloneRejected(tr) == tr.tpc = "done" /\ tr.failedAt \in {"ref", "clone"}

\* C34: cloneRepo deletes an existing working tree before it validates the ref
\* or attempts the clone: after a rejected tag ref or a failed clone the working
\* tree the call found no longer exists, and a tree that exists was cloned
\* later by another run.
C34_TreeRemovedBeforeValidation ==
    \A t \in Triggers :
        CloneRejected(trig[t]) => (tree.exists => tree.gen > trig[t].removedGen)

\* a tag push is rejected after an earlier run left its tree, which is gone
C34_Witness ==
    \E t, u \in Triggers :
        /\ CloneRejected(trig[t])
        /\ trig[t].failedAt = "ref"
        /\ trig[t].removedGen = 1
        /\ trig[u].persisted
        /\ ~tree.exists

-----------------------------------------------------------------------------
(* C35: the branch of a webhook record *)

\* C35: the branch stored in the record of a webhook-triggered run equals the
\* branch that was cloned for that run, also when the ref was unresolvable and
\* the clone fell back to main. (Refs of at most three segments: what is cloned
\* for refs/heads/a/b is C26.)
C35_RecordBranchIsClonedBranch ==
    \A t \in Triggers :
        (/\ trig[t].kind = "webhook"
         /\ trig[t].persisted
         /\ Len(trig[t].ref) <= 3)
        => stored[trig[t].recIdx].Branch = trig[t].cloned

-----------------------------------------------------------------------------
(* C36: LoadConfig fails *)

\* the triggers whose run record was stored
Persisted == {t \in Triggers : trig[t].persisted}

\* C36: if the pipeline definition cannot be loaded or parsed from the working
\* tree after a successful acquisition, no step is executed, no run record is
\* stored and the trigger's caller gets an error.
C36_LoadFailureAborts ==
    /\ \A t \in Triggers :
           trig[t].failedAt = "load" =>
               /\ trig[t].cloned # <<>>
               /\ trig[t].tpc = "done"
               /\ trig[t].resp = "error"
               /\ ~trig[t].ranSteps
               /\ ~trig[t].persisted
    /\ Len(stored) = Cardinality(Persisted)

\* a push and a manual run, both acquired, both failing in LoadConfig
C36_Witness ==
    /\ \A t \in Triggers : trig[t].failedAt = "load" /\ trig[t].cloned # <<>>
    /\ \E t, u \in Triggers : trig[t].kind = "webhook" /\ trig[u].kind = "manual"
    /\ stored = <<>>

-----------------------------------------------------------------------------
(* C37: the requests that start a run *)

\* a POST push event that decodes, with deleted = false, a clone URL and a ref
StartsRun(tr) ==
    /\ tr.method = "POST" /\ tr.event = "push" /\ tr.decodes
    /\ ~tr.deleted /\ tr.repoURL # NoURL /\ tr.ref # EmptyRef

\* C37: only a POST push event with deleted = false, a non-empty clone URL and
\* a non-empty ref starts a run: the handler of any other request never reaches
\* cloneRepo, executes no step, stores no record, and its step leaves the
\* working tree and the run store as they are; a request of that kind does
\* reach cloneRepo.
C37_OnlyPushStartsRun ==
    /\ [](\A t \in Triggers :
             IF StartsRun(trig[t])
             THEN trig[t].tpc = "done" =>
                      (trig[t].failedAt # "none" \/ trig[t].persisted)
             ELSE /\ trig[t].tpc \in {"request", "done"}
                  /\ trig[t].cloned = <<>>
                  /\ ~trig[t].ranSteps
                  /\ ~trig[t].persisted)
    /\ [][\A t \in Triggers :
             (~StartsRun(trig[t]) /\ trig'[t] # trig[t])
             => tree' = tree /\ files' = files /\ stored' = stored
                /\ dirExists' = dirExists]_vars

\* a deleted-ref push is answered while the tree and the record of an earlier
\* push are in place
C37_Witness ==
    \E t, u \in Triggers :
        /\ trig[t].deleted
        /\ trig[t].tpc = "done"
        /\ trig[t].resp = "ok"
        /\ trig[u].persisted
        /\ tree.exists
        /\ Len(stored) = 1

-----------------------------------------------------------------------------
(* C38: credentials per repository *)

\* C38: stored credentials are isolated per repository: what GetRepoAuth(r2)
\* returns was stored with StoreRepoAuth for r2 itself, and the token embedded
\* in a clone URL for r2 is the token stored for r2.
C38_CredentialsIsolated ==
    /\ \A r2 \in RepoNames :
           GetRepoAuth(r2).err = "nil" =>
               /\ GetRepoAuth(r2).auth.RepoName = r2
               /\ GetRepoAuth(r2).auth.GithubToken = TokenFor(r2)
    /\ \A t \in Triggers :
           trig[t].cloneURL.userinfo # <<>> =>
               trig[t].cloneURL.userinfo = <<"oauth2", TokenFor(trig[t].cloneURL.repo)>>

=============================================================================
